---- MODULE Spec2Model ----
(***************************************************************************)
(* kiosk-cli (src/dapps/kiosk-cli/index.js): the command handlers that     *)
(* resolve ledger state, assemble a TransactionBlock and submit it.        *)
(*                                                                         *)
(* One invocation runs at a time (a CLI process).  Every `await` of a      *)
(* handler is a step boundary: an action is the code that runs from the    *)
(* completion of one awaited call up to the issue of the next one.  The    *)
(* ledger is external: the reply of each read is chosen when the read      *)
(* completes; the sender's KioskOwnerCaps are kept as state (ownerCaps)    *)
(* because `new` changes them.                                             *)
(***************************************************************************)
EXTENDS Integers, Sequences, FiniteSets, TLC

VARIABLES
    cmd,        \* the command being run ("idle" between invocations)
    args,       \* its arguments: itemId, kiosk (--kiosk), target (--target / --address), amount
    pc,         \* position of the handler: which await it is suspended on
    err,        \* the error thrown by the handler ("none" while running)
    reads,      \* ledger reads issued by this invocation, in issue order
    txb,        \* the TransactionBlock: whether constructed, and its operations
    submitted,  \* bundles handed to signAndExecuteTransactionBlock by this invocation
    kioskCap,   \* local `kioskCap`
    itemInfo,   \* local `item` / `itemInfo`
    itemKey,    \* local `itemKey` (purchase)
    kioskId,    \* local `kioskId` (purchase)
    kiosk,      \* local `kiosk` (purchase, Promise.all)
    policies,   \* local `policies` (purchase, Promise.all; lock)
    listing,    \* local `listing` (purchase, Promise.all)
    resolved,   \* result of purchaseAndResolvePolicies: called, canTransfer, operations
    result,     \* how sendTx ended: "none", "table", "errors"
    ownerCaps,  \* ledger: the KioskOwnerCaps owned by the sender, in query order
    rejected,   \* whether a ledger read of this invocation rejected (transport failure)
    history,    \* ledger: the kiosk events of the searched type, in order of emission
    listed,     \* local `listed` (search): the ItemListed events the query returned
    delisted,   \* local `delisted` (search)
    purchased,  \* local `purchased` (search)
    listings    \* local `listings` (search): the events printed as open listings

vars == <<cmd, args, pc, err, reads, txb, submitted, kioskCap, itemInfo, itemKey,
          kioskId, kiosk, policies, listing, resolved, result, ownerCaps, rejected,
          history, listed, delisted, purchased, listings>>

----------------------------------------------------------------------------
(* Bounds of the model *)

MaxCaps == 2
MaxPolicies == 2
MaxEvents == 4      \* events in the history of the searched type
MaxTime == 3        \* timestamps are 1..MaxTime
QueryLimit == 2     \* stands for `limit: 1000`, the size of the one page a query returns

----------------------------------------------------------------------------
(* Identifiers and values *)

Undefined == "undefined"          \* an option that was not given
Malformed == "0xZZ"               \* a string that is no address / object id
Sender == "0xA"                   \* signer.getAddress()
OtherAddr == "0xB"
Addresses == {Sender, OtherAddr}
ItemId == "0x1"                   \* the item of the command line
KeyId == "0xD"                    \* a dynamic-field wrapper
ListedKiosk == "0xE"              \* a kiosk of some seller
ExplicitKiosk == "0xF"            \* the kiosk named by --kiosk
ItemType == "T"
Price == "P"
ObjectRefs == {KeyId, ListedKiosk}

\* isValidSuiAddress / isValidSuiObjectId of @mysten/sui.js: well-formedness of the string
isValidSuiAddress(a) == a \notin {Malformed, Undefined, "kiosk"}
isValidSuiObjectId(id) == id \notin {Malformed, Undefined, "kiosk"}

\* KioskOwnerCap objects the sender can hold; cap i authorises kiosk i
CapObjectIds == <<"0xC1", "0xC2", "0xC3", "0xC4">>
OwnedKioskIds == <<"0xK1", "0xK2", "0xK3", "0xK4">>
Cap(i) == [objectId |-> CapObjectIds[i], kioskId |-> OwnedKioskIds[i]]
NullCap == [objectId |-> "null", kioskId |-> "null"]     \* `null`
UnsetCap == [objectId |-> "-", kioskId |-> "-"]          \* not assigned yet

RECURSIVE InjSeqs(_, _)
\* the sequences without repetition over S, of length at most n
InjSeqs(S, n) ==
    IF n = 0 THEN {<<>>}
    ELSE LET shorter == InjSeqs(S, n - 1)
             longer == {Append(s, x) : s \in shorter, x \in S}
         IN shorter \cup {t \in longer : \A i, j \in 1..Len(t) : i # j => t[i] # t[j]}

CapLists == InjSeqs({Cap(i) : i \in 1..MaxCaps}, MaxCaps)

\* owner records of a fetched object
Owners ==
    {[kind |-> "AddressOwner", ref |-> a] : a \in Addresses}
    \cup {[kind |-> "ObjectOwner", ref |-> o] : o \in ObjectRefs}
    \cup {[kind |-> "Shared", ref |-> "-"]}

\* replies of provider.getObject: data, or an error record
NoObject == [st |-> "unset", objectId |-> "-", type |-> "-", owner |-> [kind |-> "-", ref |-> "-"]]
ObjectError(id) == [NoObject EXCEPT !.st = "error", !.objectId = id]
ObjectData(id, o) == [st |-> "data", objectId |-> id, type |-> ItemType, owner |-> o]
ObjectReject(id) == [NoObject EXCEPT !.st = "reject", !.objectId = id]   \* the call rejected
GetObjectReplies(id) ==
    {ObjectReject(id), ObjectError(id)} \cup {ObjectData(id, o) : o \in Owners}
\* a kiosk is a shared object
GetKioskReplies(id) ==
    {ObjectReject(id), ObjectError(id), ObjectData(id, [kind |-> "Shared", ref |-> "-"])}

\* TransferPolicy objects of the ledger for ItemType: id and declared rules
PolicyRules ==
    <<  <<>>,
        <<"royalty_rule">>,
        <<"kiosk_lock_rule">>,
        <<"royalty_rule", "kiosk_lock_rule">>,
        <<"kiosk_lock_rule", "royalty_rule">>,
        <<"other_rule">>  >>
Policy(i) == [id |-> i, rules |-> PolicyRules[i]]
PolicyLists == InjSeqs({Policy(i) : i \in 1..Len(PolicyRules)}, MaxPolicies)
NoPolicies == [st |-> "unset", list |-> <<>>]
PolicyReplies ==
    {[st |-> "reject", list |-> <<>>]} \cup {[st |-> "data", list |-> l] : l \in PolicyLists}

\* replies of provider.getDynamicFieldObject for the listing
NoListing == [st |-> "unset", price |-> "-"]
ListingReplies ==
    {[st |-> "reject", price |-> "-"], [st |-> "error", price |-> "-"],
     [st |-> "data", price |-> Price]}

\* replies of getOwnedKiosks: the sender's caps as the ledger holds them, or a rejection
OwnedKiosksReplies(caps) ==
    {[st |-> "reject", kioskOwnerCaps |-> <<>>], [st |-> "data", kioskOwnerCaps |-> caps]}

\* an entry of the read log
Read(kind, id) == [kind |-> kind, id |-> id]

\* operations of a TransactionBlock
Op(op, item, ksk, cap, policy, to, amount) ==
    [op |-> op, item |-> item, kiosk |-> ksk, cap |-> cap, policy |-> policy,
     to |-> to, amount |-> amount]
NoTxb == [built |-> FALSE, ops |-> <<>>]
NewTxb == [built |-> TRUE, ops |-> <<>>]

NoResolved == [called |-> FALSE, canTransfer |-> FALSE, ops |-> <<>>]

NoArgs == [itemId |-> Undefined, kiosk |-> Undefined, target |-> Undefined, amount |-> Undefined]

----------------------------------------------------------------------------
(* @mysten/kiosk: the operations a helper appends to the TransactionBlock *)

createKioskAndShare == Op("createKioskAndShare", "-", "-", "newCap", 0, "-", "-")
transferObjects(obj, to) == Op("transferObjects", obj, "-", "-", 0, to, "-")
place(type, kioskArg, capArg, itemArg) == Op("place", itemArg, kioskArg, capArg, 0, "-", "-")
lock(type, kioskArg, capArg, policyArg, itemArg) ==
    Op("lock", itemArg, kioskArg, capArg, policyArg, "-", "-")
take(type, kioskArg, capArg, itemId) == Op("take", itemId, kioskArg, capArg, 0, "-", "-")
list(type, kioskArg, capArg, itemId, amount) ==
    Op("list", itemId, kioskArg, capArg, 0, "-", amount)
delist(type, kioskArg, capArg, itemId) == Op("delist", itemId, kioskArg, capArg, 0, "-", "-")
withdrawFromKiosk(kioskArg, capArg) == Op("withdraw", "coin", kioskArg, capArg, 0, "-", "-")

\* RuleEngine: the resolving action of one rule; an unrecognised rule has none
resolveRule(rule, policy, itemId, price, owned) ==
    CASE rule = "royalty_rule" ->
            <<Op("confirm_royalty", itemId, "-", "-", policy.id, "-", price)>>
      [] rule = "kiosk_lock_rule" ->
            <<lock(ItemType, owned.ownedKiosk, owned.ownedKioskCap, policy.id, itemId)>>
      [] OTHER -> <<>>

RECURSIVE resolveRules(_, _, _, _, _, _)
\* RuleEngine: the rules of the policy from position i on, in the order the policy stores
\* them; canTransfer is cleared by the lock rule and never set again
resolveRules(policy, i, itemId, price, owned, acc) ==
    IF i > Len(policy.rules) THEN acc
    ELSE LET rule == policy.rules[i]
         IN IF rule \notin {"royalty_rule", "kiosk_lock_rule"}
            THEN [acc EXCEPT !.unsupported = TRUE]
            ELSE resolveRules(policy, i + 1, itemId, price, owned,
                    [acc EXCEPT !.ops = acc.ops \o resolveRule(rule, policy, itemId, price, owned),
                                !.canTransfer = acc.canTransfer /\ rule # "kiosk_lock_rule"])

\* purchaseAndResolvePolicies: purchase-debit first, then the rule-satisfying operations
purchaseAndResolvePolicies(type, price, fromKioskArg, itemId, policy, owned) ==
    resolveRules(policy, 1, itemId, price, owned,
        [unsupported |-> FALSE, canTransfer |-> TRUE,
         ops |-> <<Op("purchase", itemId, fromKioskArg, "-", 0, "-", price)>>])

----------------------------------------------------------------------------
(* Helpers of index.js *)

\* findKioskCap: throws when the lookup rejects or returns no cap, else the first cap
findKioskCap(reply) ==
    IF reply.st = "reject" THEN [threw |-> TRUE, cap |-> NullCap]
    ELSE IF Len(reply.kioskOwnerCaps) = 0 THEN [threw |-> TRUE, cap |-> NullCap]
    ELSE [threw |-> FALSE, cap |-> reply.kioskOwnerCaps[1]]

\* faulty variant: the catch yields `undefined`, which the `=== null` checks let through
findKioskCapOrUndefined(reply) ==
    LET r == findKioskCap(reply) IN IF r.threw THEN UnsetCap ELSE r.cap

\* `await findKioskCap().catch(() => null)`
findKioskCapOrNull(reply) ==
    LET r == findKioskCap(reply) IN IF r.threw THEN NullCap ELSE r.cap

\* `'error' in item || !item.data`
notFound(obj) == obj.st # "data"

\* faulty variant: any address-owned item passes, whoever owns it
notOwnedBy_anyAddress(obj, owner) == obj.owner.kind # "AddressOwner"

\* `!('AddressOwner' in item.data.owner) || item.data.owner.AddressOwner !== owner`
notOwnedBy(obj, owner) == obj.owner.kind # "AddressOwner" \/ obj.owner.ref # owner

\* faulty variant: only a shared item is refused
notObjectOwned_sharedOnly(obj) == obj.owner.kind = "Shared"

\* `!('ObjectOwner' in x.data.owner)`
notObjectOwned(obj) == obj.owner.kind # "ObjectOwner"

\* the argument checks at the head of purchaseItem: the error thrown, or "none"
purchaseArgsError(itemId, opts) ==
    IF opts.target # Undefined /\ opts.target # "kiosk" /\ ~isValidSuiAddress(opts.target)
    THEN "InvalidInput"
    ELSE IF opts.kiosk # Undefined /\ ~isValidSuiObjectId(opts.kiosk) THEN "InvalidInput"
    ELSE IF ~isValidSuiObjectId(itemId) THEN "InvalidInput"
    ELSE "none"

\* faulty variant: the empty policy list is not checked
purchaseJoinError_noPolicyCheck(lst, ksk, item, pol) ==
    IF notFound(lst) THEN "NotListed"
    ELSE IF notFound(ksk) THEN "KioskNotFound"
    ELSE IF notFound(item) THEN "NotFound"
    ELSE "none"

\* faulty variant: the listing is not checked
purchaseJoinError_noListingCheck(lst, ksk, item, pol) ==
    IF notFound(ksk) THEN "KioskNotFound"
    ELSE IF notFound(item) THEN "NotFound"
    ELSE IF Len(pol.list) = 0 THEN "NoPolicy"
    ELSE "none"

\* the checks of purchaseItem after Promise.all: the error thrown, or "none"
purchaseJoinError(lst, ksk, item, pol) ==
    IF notFound(lst) THEN "NotListed"
    ELSE IF notFound(ksk) THEN "KioskNotFound"
    ELSE IF notFound(item) THEN "NotFound"
    ELSE IF Len(pol.list) = 0 THEN "NoPolicy"
    ELSE "none"

\* faulty variant: the key hop is made even when --kiosk is given
needsKeyLookup_always(inputKioskId) == TRUE

\* `let kioskId = inputKioskId; ... if (!kioskId)`: whether the key hop is made
needsKeyLookup(inputKioskId) == inputKioskId = Undefined

\* faulty variant: one hop only, the key itself is taken for the kiosk
kioskOfKey_oneHop(key) == key.objectId

\* `kioskId = itemKey.data.owner.ObjectOwner`
kioskOfKey(key) == key.owner.ref

\* `const itemKeyId = itemInfo.data.owner.ObjectOwner`
keyOfItem(item) == item.owner.ref

\* faulty variant: the last policy of the list is taken
firstPolicy_last(pol) == pol.list[Len(pol.list)]

\* the policy handed to purchaseAndResolvePolicies / destructured by lockItem
firstPolicy(pol) == pol.list[1]

\* faulty variant: the early return on !canTransfer is missing
purchaseFinalOps_noEarlyReturn(canTransfer, target, type, ownedKiosk, ownedKioskCap, item) ==
    IF target = "kiosk" THEN <<place(type, ownedKiosk, ownedKioskCap, item)>>
    ELSE <<transferObjects(item, IF target # Undefined THEN target ELSE Sender)>>

\* faulty variant: the "kiosk" target is treated as the default destination
purchaseFinalOps_kioskIgnored(canTransfer, target, type, ownedKiosk, ownedKioskCap, item) ==
    IF ~canTransfer THEN <<>>
    ELSE <<transferObjects(item, IF target \notin {Undefined, "kiosk"} THEN target ELSE Sender)>>

\* the tail of purchaseItem: what is appended to the bundle after rule resolution
purchaseFinalOps(canTransfer, target, type, ownedKiosk, ownedKioskCap, item) ==
    IF ~canTransfer THEN <<>>
    ELSE IF target = "kiosk" THEN <<place(type, ownedKiosk, ownedKioskCap, item)>>
    ELSE <<transferObjects(item, IF target # Undefined THEN target ELSE Sender)>>

----------------------------------------------------------------------------
(* Steps shared by the handlers *)

\* `throw new Error(...)`: the handler ends, nothing more is issued
Throw(e) ==
    /\ pc' = "error"
    /\ err' = e

\* a ledger read is issued and the handler suspends on it
Await(p, rd) ==
    /\ pc' = p
    /\ err' = err
    /\ reads' = Append(reads, rd)

\* faulty variant: the bundle is handed over twice
sendTx_twice(ops) ==
    /\ txb' = [built |-> TRUE, ops |-> ops]
    /\ submitted' = <<ops, ops>>
    /\ pc' = "send"
    /\ err' = err

\* sendTx: the bundle is handed to signer.signAndExecuteTransactionBlock
sendTx(ops) ==
    /\ txb' = [built |-> TRUE, ops |-> ops]
    /\ submitted' = Append(submitted, ops)
    /\ pc' = "send"
    /\ err' = err

\* the handler is entered: command and arguments are fixed for the invocation
Enter(c, a) ==
    /\ pc = "idle"
    /\ cmd' = c
    /\ args' = a

\* the awaited read settles: a rejection is a transport failure of this invocation
noteReply(st) == rejected' = (rejected \/ st = "reject")

purchaseLocals == <<itemInfo, itemKey, kioskId, kiosk, policies, listing, resolved>>
searchLocals == <<listed, delisted, purchased, listings>>
searchVars == <<history, searchLocals>>

----------------------------------------------------------------------------
(* Command `new` *)

newKiosk_call ==
    /\ Enter("new", NoArgs)
    /\ Await("cap", Read("getOwnedKiosks", Sender))
    /\ UNCHANGED <<searchVars, rejected, txb, submitted, kioskCap, purchaseLocals, result, ownerCaps>>

newKiosk_afterCap ==
    /\ cmd = "new" /\ pc = "cap"
    /\ \E reply \in OwnedKiosksReplies(ownerCaps) :
         LET cap == findKioskCapOrNull(reply)
         IN /\ kioskCap' = cap /\ noteReply(reply.st)
            /\ IF cap # NullCap
               THEN Throw("KioskExists") /\ UNCHANGED <<txb, submitted>>
               ELSE sendTx(<<createKioskAndShare, transferObjects("newCap", Sender)>>)
    /\ UNCHANGED <<searchVars, cmd, args, reads, purchaseLocals, result, ownerCaps>>

----------------------------------------------------------------------------
(* Commands `place` and `lock` *)

\* the head shared by placeItem and lockItem: cap lookup, null check, id check, item read
capThenItemId(cap) ==
    IF cap = NullCap THEN Throw("NoKiosk") /\ UNCHANGED reads
    ELSE IF ~isValidSuiObjectId(args.itemId) THEN Throw("InvalidInput") /\ UNCHANGED reads
    ELSE Await("item", Read("getObject", args.itemId))

\* the item checks shared by placeItem and lockItem: the error thrown, or "none"
ownItemError(item, owner) ==
    IF item.st = "reject" THEN "TransportError"
    ELSE IF notFound(item) THEN "NotFound"
    ELSE IF notOwnedBy(item, owner) THEN "NotOwner"
    ELSE "none"

placeItem_call(itemId) ==
    /\ Enter("place", [NoArgs EXCEPT !.itemId = itemId])
    /\ Await("cap", Read("getOwnedKiosks", Sender))
    /\ UNCHANGED <<searchVars, rejected, txb, submitted, kioskCap, purchaseLocals, result, ownerCaps>>

placeItem_afterCap ==
    /\ cmd = "place" /\ pc = "cap"
    /\ \E reply \in OwnedKiosksReplies(ownerCaps) :
         LET cap == findKioskCapOrNull(reply)
         IN kioskCap' = cap /\ noteReply(reply.st) /\ capThenItemId(cap)
    /\ UNCHANGED <<searchVars, cmd, args, txb, submitted, purchaseLocals, result, ownerCaps>>

placeItem_afterItem ==
    /\ cmd = "place" /\ pc = "item"
    /\ \E item \in GetObjectReplies(args.itemId) :
         /\ itemInfo' = item /\ noteReply(item.st)
         /\ IF ownItemError(item, Sender) # "none"
            THEN Throw(ownItemError(item, Sender)) /\ UNCHANGED <<txb, submitted>>
            ELSE sendTx(<<place(item.type, kioskCap.kioskId, kioskCap.objectId, item.objectId)>>)
    /\ UNCHANGED <<searchVars, cmd, args, reads, kioskCap, itemKey, kioskId, kiosk, policies, listing,
                   resolved, result, ownerCaps>>

lockItem_call(itemId) ==
    /\ Enter("lock", [NoArgs EXCEPT !.itemId = itemId])
    /\ Await("cap", Read("getOwnedKiosks", Sender))
    /\ UNCHANGED <<searchVars, rejected, txb, submitted, kioskCap, purchaseLocals, result, ownerCaps>>

lockItem_afterCap ==
    /\ cmd = "lock" /\ pc = "cap"
    /\ \E reply \in OwnedKiosksReplies(ownerCaps) :
         LET cap == findKioskCapOrNull(reply)
         IN kioskCap' = cap /\ noteReply(reply.st) /\ capThenItemId(cap)
    /\ UNCHANGED <<searchVars, cmd, args, txb, submitted, purchaseLocals, result, ownerCaps>>

lockItem_afterItem ==
    /\ cmd = "lock" /\ pc = "item"
    /\ \E item \in GetObjectReplies(args.itemId) :
         /\ itemInfo' = item /\ noteReply(item.st)
         /\ IF ownItemError(item, Sender) # "none"
            THEN Throw(ownItemError(item, Sender)) /\ UNCHANGED reads
            ELSE Await("policy", Read("queryTransferPolicy", item.type))
    /\ UNCHANGED <<searchVars, cmd, args, txb, submitted, kioskCap, itemKey, kioskId, kiosk, policies,
                   listing, resolved, result, ownerCaps>>

lockItem_afterPolicy ==
    /\ cmd = "lock" /\ pc = "policy"
    /\ \E pol \in PolicyReplies :
         /\ policies' = pol /\ noteReply(pol.st)
         /\ IF pol.st = "reject" THEN Throw("TransportError") /\ UNCHANGED <<txb, submitted>>
            ELSE IF Len(pol.list) = 0 THEN Throw("NoPolicy") /\ UNCHANGED <<txb, submitted>>
            ELSE sendTx(<<lock(itemInfo.type, kioskCap.kioskId, kioskCap.objectId,
                               firstPolicy(pol).id, itemInfo.objectId)>>)
    /\ UNCHANGED <<searchVars, cmd, args, reads, kioskCap, itemInfo, itemKey, kioskId, kiosk, listing,
                   resolved, result, ownerCaps>>

----------------------------------------------------------------------------
(* Commands `take`, `list`, `delist`, `withdraw` *)

\* the item check shared by takeItem, listItem and delistItem: the error thrown, or "none"
kioskItemError(item) ==
    IF item.st = "reject" THEN "TransportError"
    ELSE IF notFound(item) THEN "NotFound"
    ELSE "none"

takeItem_call(itemId, address) ==
    /\ Enter("take", [NoArgs EXCEPT !.itemId = itemId, !.target = address])
    /\ Await("cap", Read("getOwnedKiosks", Sender))
    /\ UNCHANGED <<searchVars, rejected, txb, submitted, kioskCap, purchaseLocals, result, ownerCaps>>

\* `const receiver = address || (await signer.getAddress())`
takeReceiver(address) == IF address # Undefined THEN address ELSE Sender

takeItem_afterCap ==
    /\ cmd = "take" /\ pc = "cap"
    /\ \E reply \in OwnedKiosksReplies(ownerCaps) :
         LET cap == findKioskCapOrNull(reply)
         IN /\ kioskCap' = cap /\ noteReply(reply.st)
            /\ IF ~isValidSuiAddress(takeReceiver(args.target))
               THEN Throw("InvalidInput") /\ UNCHANGED reads
               ELSE IF ~isValidSuiObjectId(args.itemId)
               THEN Throw("InvalidInput") /\ UNCHANGED reads
               ELSE IF cap = NullCap THEN Throw("NoKiosk") /\ UNCHANGED reads
               ELSE Await("item", Read("getObject", args.itemId))
    /\ UNCHANGED <<searchVars, cmd, args, txb, submitted, purchaseLocals, result, ownerCaps>>

takeItem_afterItem ==
    /\ cmd = "take" /\ pc = "item"
    /\ \E item \in GetObjectReplies(args.itemId) :
         /\ itemInfo' = item /\ noteReply(item.st)
         /\ IF kioskItemError(item) # "none"
            THEN Throw(kioskItemError(item)) /\ UNCHANGED <<txb, submitted>>
            ELSE sendTx(<<take(item.type, kioskCap.kioskId, kioskCap.objectId, args.itemId),
                          transferObjects(args.itemId, takeReceiver(args.target))>>)
    /\ UNCHANGED <<searchVars, cmd, args, reads, kioskCap, itemKey, kioskId, kiosk, policies, listing,
                   resolved, result, ownerCaps>>

listItem_call(itemId, amount) ==
    /\ Enter("list", [NoArgs EXCEPT !.itemId = itemId, !.amount = amount])
    /\ Await("cap", Read("getOwnedKiosks", Sender))
    /\ UNCHANGED <<searchVars, rejected, txb, submitted, kioskCap, purchaseLocals, result, ownerCaps>>

listItem_afterCap ==
    /\ cmd = "list" /\ pc = "cap"
    /\ \E reply \in OwnedKiosksReplies(ownerCaps) :
         LET cap == findKioskCapOrNull(reply)
         IN kioskCap' = cap /\ noteReply(reply.st) /\ capThenItemId(cap)
    /\ UNCHANGED <<searchVars, cmd, args, txb, submitted, purchaseLocals, result, ownerCaps>>

listItem_afterItem ==
    /\ cmd = "list" /\ pc = "item"
    /\ \E item \in GetObjectReplies(args.itemId) :
         /\ itemInfo' = item /\ noteReply(item.st)
         /\ IF kioskItemError(item) # "none"
            THEN Throw(kioskItemError(item)) /\ UNCHANGED <<txb, submitted>>
            ELSE sendTx(<<list(item.type, kioskCap.kioskId, kioskCap.objectId, args.itemId,
                               args.amount)>>)
    /\ UNCHANGED <<searchVars, cmd, args, reads, kioskCap, itemKey, kioskId, kiosk, policies, listing,
                   resolved, result, ownerCaps>>

delistItem_call(itemId) ==
    /\ Enter("delist", [NoArgs EXCEPT !.itemId = itemId])
    /\ Await("cap", Read("getOwnedKiosks", Sender))
    /\ UNCHANGED <<searchVars, rejected, txb, submitted, kioskCap, purchaseLocals, result, ownerCaps>>

delistItem_afterCap ==
    /\ cmd = "delist" /\ pc = "cap"
    /\ \E reply \in OwnedKiosksReplies(ownerCaps) :
         LET cap == findKioskCapOrNull(reply)
         IN kioskCap' = cap /\ noteReply(reply.st) /\ capThenItemId(cap)
    /\ UNCHANGED <<searchVars, cmd, args, txb, submitted, purchaseLocals, result, ownerCaps>>

delistItem_afterItem ==
    /\ cmd = "delist" /\ pc = "item"
    /\ \E item \in GetObjectReplies(args.itemId) :
         /\ itemInfo' = item /\ noteReply(item.st)
         /\ IF kioskItemError(item) # "none"
            THEN Throw(kioskItemError(item)) /\ UNCHANGED <<txb, submitted>>
            ELSE sendTx(<<delist(item.type, kioskCap.kioskId, kioskCap.objectId, args.itemId)>>)
    /\ UNCHANGED <<searchVars, cmd, args, reads, kioskCap, itemKey, kioskId, kiosk, policies, listing,
                   resolved, result, ownerCaps>>

withdrawAll_call ==
    /\ Enter("withdraw", NoArgs)
    /\ Await("cap", Read("getOwnedKiosks", Sender))
    /\ UNCHANGED <<searchVars, rejected, txb, submitted, kioskCap, purchaseLocals, result, ownerCaps>>

withdrawAll_afterCap ==
    /\ cmd = "withdraw" /\ pc = "cap"
    /\ \E reply \in OwnedKiosksReplies(ownerCaps) :
         LET cap == findKioskCapOrNull(reply)
         IN /\ kioskCap' = cap /\ noteReply(reply.st)
            /\ IF cap = NullCap
               THEN Throw("NoKiosk") /\ UNCHANGED <<txb, submitted>>
               ELSE sendTx(<<withdrawFromKiosk(cap.kioskId, cap.objectId),
                             transferObjects("coin", Sender)>>)
    /\ UNCHANGED <<searchVars, cmd, args, reads, purchaseLocals, result, ownerCaps>>

----------------------------------------------------------------------------
(* Command `purchase` *)

\* the three reads of Promise.all, in the order the array expression issues them
purchaseParallelReads(kid, type, itemId) ==
    <<Read("getObject", kid), Read("queryTransferPolicy", type),
      Read("getDynamicFieldObject", kid)>>

\* Promise.all is entered: the three reads are in flight
AwaitAll(kid, type, itemId) ==
    /\ pc' = "all"
    /\ err' = err
    /\ reads' = reads \o purchaseParallelReads(kid, type, itemId)

\* the item checks of purchaseItem: the error thrown, or "none"
purchaseItemError(item) ==
    IF item.st = "reject" THEN "TransportError"
    ELSE IF notFound(item) THEN "NotFound"
    ELSE IF notObjectOwned(item) THEN "NotInKiosk"
    ELSE "none"

\* the key checks of purchaseItem: the error thrown, or "none"
purchaseKeyError(key) ==
    IF key.st = "reject" THEN "TransportError"
    ELSE IF notFound(key) THEN "ResolutionError"
    ELSE IF notObjectOwned(key) THEN "ResolutionError"
    ELSE "none"

purchaseItem_call(itemId, opts) ==
    /\ Enter("purchase", [NoArgs EXCEPT !.itemId = itemId, !.kiosk = opts.kiosk,
                                         !.target = opts.target])
    /\ IF purchaseArgsError(itemId, opts) # "none"
       THEN Throw(purchaseArgsError(itemId, opts)) /\ UNCHANGED <<reads, kioskId>>
       ELSE /\ kioskId' = opts.kiosk
            /\ Await("item", Read("getObject", itemId))
    /\ UNCHANGED <<searchVars, rejected, txb, submitted, kioskCap, itemInfo, itemKey, kiosk, policies, listing,
                   resolved, result, ownerCaps>>

purchaseItem_afterItem ==
    /\ cmd = "purchase" /\ pc = "item"
    /\ \E item \in GetObjectReplies(args.itemId) :
         /\ itemInfo' = item /\ noteReply(item.st)
         /\ IF purchaseItemError(item) # "none"
            THEN Throw(purchaseItemError(item)) /\ UNCHANGED reads
            ELSE IF needsKeyLookup(kioskId)
            THEN Await("key", Read("getObject", keyOfItem(item)))
            ELSE AwaitAll(kioskId, item.type, args.itemId)
    /\ UNCHANGED <<searchVars, cmd, args, txb, submitted, kioskCap, itemKey, kioskId, kiosk, policies,
                   listing, resolved, result, ownerCaps>>

purchaseItem_afterKey ==
    /\ cmd = "purchase" /\ pc = "key"
    /\ \E key \in GetObjectReplies(keyOfItem(itemInfo)) :
         /\ itemKey' = key /\ noteReply(key.st)
         /\ IF purchaseKeyError(key) # "none"
            THEN Throw(purchaseKeyError(key)) /\ UNCHANGED <<reads, kioskId>>
            ELSE /\ kioskId' = kioskOfKey(key)
                 /\ AwaitAll(kioskOfKey(key), itemInfo.type, args.itemId)
    /\ UNCHANGED <<searchVars, cmd, args, txb, submitted, kioskCap, itemInfo, kiosk, policies, listing,
                   resolved, result, ownerCaps>>

\* Promise.all: one of the three reads settles; a rejection rejects the whole
settle(st) ==
    IF st = "reject" THEN Throw("TransportError") ELSE UNCHANGED <<pc, err>>

purchaseItem_kioskSettled ==
    /\ cmd = "purchase" /\ pc = "all" /\ kiosk.st = "unset"
    /\ \E k \in GetKioskReplies(kioskId) : kiosk' = k /\ noteReply(k.st) /\ settle(k.st)
    /\ UNCHANGED <<searchVars, cmd, args, reads, txb, submitted, kioskCap, itemInfo, itemKey, kioskId,
                   policies, listing, resolved, result, ownerCaps>>

purchaseItem_policiesSettled ==
    /\ cmd = "purchase" /\ pc = "all" /\ policies.st = "unset"
    /\ \E pol \in PolicyReplies : policies' = pol /\ noteReply(pol.st) /\ settle(pol.st)
    /\ UNCHANGED <<searchVars, cmd, args, reads, txb, submitted, kioskCap, itemInfo, itemKey, kioskId,
                   kiosk, listing, resolved, result, ownerCaps>>

purchaseItem_listingSettled ==
    /\ cmd = "purchase" /\ pc = "all" /\ listing.st = "unset"
    /\ \E l \in ListingReplies : listing' = l /\ noteReply(l.st) /\ settle(l.st)
    /\ UNCHANGED <<searchVars, cmd, args, reads, txb, submitted, kioskCap, itemInfo, itemKey, kioskId,
                   kiosk, policies, resolved, result, ownerCaps>>

\* faulty variant: the join does not wait for the kiosk read
allSettled_kioskNotAwaited == policies.st # "unset" /\ listing.st # "unset"

\* Promise.all resolves once all three reads have settled
allSettled == kiosk.st # "unset" /\ policies.st # "unset" /\ listing.st # "unset"

purchaseItem_afterAll ==
    /\ cmd = "purchase" /\ pc = "all" /\ allSettled
    /\ IF purchaseJoinError(listing, kiosk, itemInfo, policies) # "none"
       THEN /\ Throw(purchaseJoinError(listing, kiosk, itemInfo, policies))
            /\ UNCHANGED <<reads, txb>>
       ELSE /\ txb' = NewTxb
            /\ Await("cap", Read("getOwnedKiosks", Sender))
    /\ UNCHANGED <<searchVars, rejected, cmd, args, submitted, kioskCap, purchaseLocals, result, ownerCaps>>

\* faulty variant: the capability is required only when the kiosk is the destination
purchaseCapError_onlyForKioskTarget(cap) ==
    IF cap = NullCap /\ args.target = "kiosk" THEN "NoKiosk" ELSE "none"

\* `if (kioskCap === null) throw` of purchaseItem: the error thrown, or "none"
purchaseCapError(cap) == IF cap = NullCap THEN "NoKiosk" ELSE "none"

\* faulty variant: the final operation is put in front of the rule operations
purchaseBundle_finalFirst(r, target, type, cap, item) ==
    purchaseFinalOps(r.canTransfer, target, type, cap.kioskId, cap.objectId, item) \o r.ops

\* the bundle purchaseItem submits: the operations of rule resolution, then the final one
purchaseBundle(r, target, type, cap, item) ==
    r.ops \o purchaseFinalOps(r.canTransfer, target, type, cap.kioskId, cap.objectId, item)

purchaseItem_afterCap ==
    /\ cmd = "purchase" /\ pc = "cap"
    /\ \E reply \in OwnedKiosksReplies(ownerCaps) :
         LET cap == findKioskCapOrNull(reply)
             r == purchaseAndResolvePolicies(itemInfo.type, listing.price, kiosk.objectId,
                     itemInfo.objectId, firstPolicy(policies),
                     [ownedKiosk |-> cap.kioskId, ownedKioskCap |-> cap.objectId])
         IN /\ kioskCap' = cap /\ noteReply(reply.st)
            /\ IF purchaseCapError(cap) # "none"
               THEN Throw(purchaseCapError(cap)) /\ UNCHANGED <<txb, submitted, resolved>>
               ELSE IF r.unsupported
               THEN Throw("UnsupportedRule") /\ UNCHANGED <<txb, submitted, resolved>>
               ELSE /\ resolved' = [called |-> TRUE, canTransfer |-> r.canTransfer,
                                     ops |-> r.ops]
                    /\ sendTx(purchaseBundle(r, args.target, itemInfo.type, cap,
                                             itemInfo.objectId))
    /\ UNCHANGED <<searchVars, cmd, args, reads, itemInfo, itemKey, kioskId, kiosk, policies, listing,
                   result, ownerCaps>>

----------------------------------------------------------------------------
(* Command `search` *)

EventKinds == {"ItemListed", "ItemDelisted", "ItemPurchased"}
SearchItems == {ItemId, "0x2"}
\* an event of 0x2::kiosk: its type, `parsedJson.id` and `timestampMs`
Event(kind, id, ts) == [kind |-> kind, id |-> id, timestampMs |-> ts]
Events == {Event(k, i, t) : k \in EventKinds, i \in SearchItems, t \in 1..MaxTime}

\* whether item id is listed at the end of history h: a listing is its last event
isListed(h, id) ==
    \E i \in 1..Len(h) :
        /\ h[i].id = id
        /\ h[i].kind = "ItemListed"
        /\ \A j \in (i + 1)..Len(h) : h[j].id # id

\* the events the ledger can emit after history h: an item that is listed can be
\* delisted or purchased, one that is not can be listed; time does not run backwards
canFollow(h, e) ==
    /\ isListed(h, e.id) <=> e.kind # "ItemListed"
    /\ Len(h) = 0 \/ h[Len(h)].timestampMs <= e.timestampMs

RECURSIVE Histories(_)
\* the event histories of at most n events
Histories(n) ==
    IF n = 0 THEN {<<>>}
    ELSE LET shorter == Histories(n - 1)
             extended == {p \in shorter \X Events : Len(p[1]) = n - 1 /\ canFollow(p[1], p[2])}
         IN shorter \cup {Append(p[1], p[2]) : p \in extended}

\* the events of one type, in order of emission
eventsOf(h, kind) == SelectSeq(h, LAMBDA e : e.kind = kind)

\* the j-th smallest index of the index set I
nth(I, j) == CHOOSE i \in I : Cardinality({k \in I : k < i}) = j - 1

\* provider.queryEvents({ query: { MoveEventType }, limit }): the replies the endpoint
\* can give: every event of the type, or, when there are more than `limit`, one page of
\* `limit` of them (the code reads `data` only and never follows the cursor)
queryEvents(h, kind, limit) ==
    LET all == eventsOf(h, kind)
    IN IF Len(all) <= limit THEN {all}
       ELSE {[j \in 1..limit |-> all[nth(I, j)]] :
                I \in {J \in SUBSET (1..Len(all)) : Cardinality(J) = limit}}

\* faulty variant: an event of the same timestamp also closes the listing
someLater_orSimultaneous(e, evs) ==
    \E i \in 1..Len(evs) : e.id = evs[i].id /\ e.timestampMs <= evs[i].timestampMs

\* `evs.some((item) => itemId == item.parsedJson.id && timestamp < item.timestampMs)`
someLater(e, evs) ==
    \E i \in 1..Len(evs) : e.id = evs[i].id /\ e.timestampMs < evs[i].timestampMs

\* the two filters of searchType over `listed`
filterListings(l, d, p) ==
    SelectSeq(SelectSeq(l, LAMBDA e : ~someLater(e, d)), LAMBDA e : ~someLater(e, p))

\* Promise.all of the three event queries is entered
searchType_call ==
    /\ Enter("search", NoArgs)
    /\ pc' = "events"
    /\ err' = err
    /\ reads' = reads \o <<Read("queryEvents", "ItemListed"), Read("queryEvents", "ItemDelisted"),
                           Read("queryEvents", "ItemPurchased")>>
    /\ UNCHANGED <<searchVars, rejected, txb, submitted, kioskCap, purchaseLocals, result,
                   ownerCaps>>

\* the three queries resolved: the listings are filtered and printed
searchType_afterEvents ==
    /\ cmd = "search" /\ pc = "events"
    /\ \E l \in queryEvents(history, "ItemListed", QueryLimit),
          d \in queryEvents(history, "ItemDelisted", QueryLimit),
          p \in queryEvents(history, "ItemPurchased", QueryLimit) :
         /\ listed' = l
         /\ delisted' = d
         /\ purchased' = p
         /\ listings' = filterListings(l, d, p)
    /\ noteReply("data")
    /\ pc' = "done"
    /\ UNCHANGED <<history, cmd, args, err, reads, txb, submitted, kioskCap, purchaseLocals,
                   result, ownerCaps>>

\* one of the three queries rejects: Promise.all rejects and the handler throws
searchType_rejected ==
    /\ cmd = "search" /\ pc = "events"
    /\ noteReply("reject")
    /\ Throw("TransportError")
    /\ UNCHANGED <<searchVars, cmd, args, reads, txb, submitted, kioskCap, purchaseLocals,
                   result, ownerCaps>>

----------------------------------------------------------------------------
(* sendTx and the end of an invocation *)

\* the cap the ledger creates when a `new` bundle is applied
freshCap == Cap(CHOOSE i \in 1..MaxCaps : Cap(i) \notin {ownerCaps[j] : j \in 1..Len(ownerCaps)}
                    /\ \A k \in 1..(i - 1) : Cap(k) \in {ownerCaps[j] : j \in 1..Len(ownerCaps)})

\* the ledger applies a bundle: only `new` changes the sender's caps
applied(c, caps) == IF c = "new" THEN Append(caps, freshCap) ELSE caps

\* `.then((result) => ...)`: the result carries `errors`, or the object changes
sendTx_then ==
    /\ pc = "send"
    /\ \E outcome \in {"table", "errors"} :
         /\ outcome = "table" /\ cmd = "new" => Len(ownerCaps) < MaxCaps
         /\ result' = outcome
         /\ ownerCaps' = IF outcome = "table" THEN applied(cmd, ownerCaps) ELSE ownerCaps
    /\ pc' = "done"
    /\ UNCHANGED <<searchVars, rejected, cmd, args, err, reads, txb, submitted, kioskCap, purchaseLocals>>

\* signAndExecuteTransactionBlock rejects: sendTx has no catch, the handler throws
sendTx_rejected ==
    /\ pc = "send"
    /\ Throw("SubmissionError")
    /\ UNCHANGED <<searchVars, rejected, cmd, args, reads, txb, submitted, kioskCap, purchaseLocals, result,
                   ownerCaps>>

\* the process ends; the next invocation starts from fresh locals
exit ==
    /\ pc \in {"done", "error"}
    /\ cmd' = "idle"
    /\ args' = NoArgs
    /\ pc' = "idle"
    /\ err' = "none"
    /\ reads' = <<>>
    /\ txb' = NoTxb
    /\ submitted' = <<>>
    /\ kioskCap' = UnsetCap
    /\ itemInfo' = NoObject
    /\ itemKey' = NoObject
    /\ kioskId' = Undefined
    /\ kiosk' = NoObject
    /\ policies' = NoPolicies
    /\ listing' = NoListing
    /\ resolved' = NoResolved
    /\ result' = "none"
    /\ rejected' = FALSE
    /\ listed' = <<>>
    /\ delisted' = <<>>
    /\ purchased' = <<>>
    /\ listings' = <<>>
    /\ UNCHANGED <<ownerCaps, history>>

----------------------------------------------------------------------------
(* The specification *)

ItemArgs == {ItemId, Malformed}
KioskArgs == {Undefined, ExplicitKiosk, Malformed}
TargetArgs == {Undefined, "kiosk", OtherAddr, Malformed}
AddressArgs == {Undefined, OtherAddr, Malformed}
AmountArgs == {"1000", "abc"}

\* the locals of a process that has not entered a handler yet
FreshInvocation ==
    /\ cmd = "idle"
    /\ args = NoArgs
    /\ pc = "idle"
    /\ err = "none"
    /\ reads = <<>>
    /\ txb = NoTxb
    /\ submitted = <<>>
    /\ kioskCap = UnsetCap
    /\ itemInfo = NoObject
    /\ itemKey = NoObject
    /\ kioskId = Undefined
    /\ kiosk = NoObject
    /\ policies = NoPolicies
    /\ listing = NoListing
    /\ resolved = NoResolved
    /\ result = "none"
    /\ rejected = FALSE
    /\ listed = <<>>
    /\ delisted = <<>>
    /\ purchased = <<>>
    /\ listings = <<>>

Init ==
    /\ FreshInvocation
    /\ ownerCaps \in CapLists
    /\ history = <<>>

Next ==
    \/ newKiosk_call
    \/ newKiosk_afterCap
    \/ \E i \in ItemArgs : placeItem_call(i)
    \/ placeItem_afterCap
    \/ placeItem_afterItem
    \/ \E i \in ItemArgs : lockItem_call(i)
    \/ lockItem_afterCap
    \/ lockItem_afterItem
    \/ lockItem_afterPolicy
    \/ \E i \in ItemArgs, a \in AddressArgs : takeItem_call(i, a)
    \/ takeItem_afterCap
    \/ takeItem_afterItem
    \/ \E i \in ItemArgs, m \in AmountArgs : listItem_call(i, m)
    \/ listItem_afterCap
    \/ listItem_afterItem
    \/ \E i \in ItemArgs : delistItem_call(i)
    \/ delistItem_afterCap
    \/ delistItem_afterItem
    \/ withdrawAll_call
    \/ withdrawAll_afterCap
    \/ \E i \in ItemArgs, k \in KioskArgs, t \in TargetArgs :
            purchaseItem_call(i, [kiosk |-> k, target |-> t])
    \/ purchaseItem_afterItem
    \/ purchaseItem_afterKey
    \/ purchaseItem_kioskSettled
    \/ purchaseItem_policiesSettled
    \/ purchaseItem_listingSettled
    \/ purchaseItem_afterAll
    \/ purchaseItem_afterCap
    \/ sendTx_then
    \/ sendTx_rejected
    \/ exit

Spec == Init /\ [][Next]_vars

\* `search` over every event history of the bounded size; it never looks a capability up
SearchInit ==
    /\ FreshInvocation
    /\ ownerCaps = <<>>
    /\ history \in Histories(MaxEvents)

SearchNext ==
    \/ searchType_call
    \/ searchType_afterEvents
    \/ searchType_rejected
    \/ exit

SearchSpec == SearchInit /\ [][SearchNext]_vars

----------------------------------------------------------------------------
(* Properties *)

HasSubmitted == Len(submitted) > 0
IsTransferOrPlace(o) == o.op \in {"place", "transferObjects"}
\* the lock of the purchased item into the kiosk of the cap the lookup returned
IsLockIntoOwnKiosk(o) ==
    /\ o.op = "lock"
    /\ o.item = args.itemId
    /\ o.kiosk = kioskCap.kioskId
    /\ o.cap = kioskCap.objectId
LockedPurchaseSubmitted ==
    cmd = "purchase" /\ resolved.called /\ ~resolved.canTransfer /\ HasSubmitted
FreePurchaseSubmitted ==
    cmd = "purchase" /\ resolved.called /\ resolved.canTransfer /\ HasSubmitted

\* C1 (as stated): when rule resolution returns canTransfer = false, the submitted bundle
\* is the operations of rule resolution and its last operation is the lock into the
\* caller's own kiosk, with no place or transferObjects operation, whatever --target is.
C1_BundleEndsInLock ==
    LockedPurchaseSubmitted =>
        LET b == submitted[1]
        IN /\ b = resolved.ops
           /\ IsLockIntoOwnKiosk(b[Len(b)])
           /\ \A i \in 1..Len(b) : ~IsTransferOrPlace(b[i])

\* C1 (amended): when rule resolution returns canTransfer = false, exactly one bundle is
\* submitted, it is exactly the operations of rule resolution, one of them is the lock
\* into the kiosk of the caller's first capability, and no place or transferObjects
\* operation is in it, whatever --target is.
C1_NothingAppendedAfterLock ==
    LockedPurchaseSubmitted =>
        LET b == submitted[1]
        IN /\ Len(submitted) = 1
           /\ b = resolved.ops
           /\ kioskCap = ownerCaps[1]
           /\ \E i \in 1..Len(b) : IsLockIntoOwnKiosk(b[i])
           /\ \A i \in 1..Len(b) : ~IsTransferOrPlace(b[i])

C1_Witness ==
    /\ LockedPurchaseSubmitted
    /\ args.target = OtherAddr
    /\ pc = "send"

\* C2: when rule resolution returns canTransfer = true, the submitted bundle is the
\* operations of rule resolution followed by exactly one operation: a place into the
\* caller's own kiosk for target "kiosk", a transfer to the address for an address
\* target, a transfer to the caller for no target.
C2_OneFinalOperationByDestination ==
    FreePurchaseSubmitted =>
        LET b == submitted[1]
            last == b[Len(b)]
        IN /\ Len(submitted) = 1
           /\ Len(b) = Len(resolved.ops) + 1
           /\ SubSeq(b, 1, Len(resolved.ops)) = resolved.ops
           /\ \A i \in 1..Len(resolved.ops) : ~IsTransferOrPlace(b[i])
           /\ last.item = args.itemId
           /\ args.target = "kiosk" =>
                /\ last.op = "place"
                /\ last.kiosk = ownerCaps[1].kioskId
                /\ last.cap = ownerCaps[1].objectId
           /\ args.target = OtherAddr => last.op = "transferObjects" /\ last.to = OtherAddr
           /\ args.target = Undefined => last.op = "transferObjects" /\ last.to = Sender

C2_Witness ==
    /\ FreePurchaseSubmitted
    /\ args.target = "kiosk"
    /\ Len(resolved.ops) = 2
    /\ pc = "send"

EmptyPolicyList == policies.st = "data" /\ Len(policies.list) = 0

\* C3: in purchase and in lock, when the transfer-policy query returned an empty list no
\* TransactionBlock is constructed and nothing is submitted, and the policy selection
\* (reached in purchase once listing and kiosk are found) fails with NoPolicy.
C3_NoPolicyNoTransaction ==
    (cmd \in {"purchase", "lock"} /\ EmptyPolicyList) =>
        /\ ~txb.built
        /\ ~HasSubmitted
        /\ pc \notin {"cap", "send", "done"}
        /\ (cmd = "lock") => (pc = "error" /\ err = "NoPolicy")
        /\ (cmd = "purchase" /\ listing.st = "data" /\ kiosk.st = "data" /\ pc # "all")
                => (pc = "error" /\ err = "NoPolicy")

C3_Witness ==
    /\ cmd = "purchase"
    /\ EmptyPolicyList
    /\ listing.st = "data"
    /\ kiosk.st = "data"
    /\ err = "NoPolicy"

ItemAddressOwned == itemInfo.st = "data" /\ itemInfo.owner.kind = "AddressOwner"

\* C4: in purchase, when the fetched item is address-owned the handler fails with
\* NotInKiosk, no kiosk id is derived, the item read is the only ledger read issued, and
\* no TransactionBlock is constructed or submitted.
C4_AddressOwnedNotInKiosk ==
    (cmd = "purchase" /\ ItemAddressOwned) =>
        /\ pc = "error"
        /\ err = "NotInKiosk"
        /\ kioskId = args.kiosk
        /\ reads = <<Read("getObject", args.itemId)>>
        /\ itemKey = NoObject /\ kiosk = NoObject
        /\ policies = NoPolicies /\ listing = NoListing /\ kioskCap = UnsetCap
        /\ ~txb.built
        /\ ~HasSubmitted

C4_Witness ==
    /\ cmd = "purchase"
    /\ ItemAddressOwned
    /\ itemInfo.owner.ref = Sender
    /\ err = "NotInKiosk"

KeyFetched == itemKey.st # "unset"
KeyObjectOwned == itemKey.st = "data" /\ itemKey.owner.kind = "ObjectOwner"

\* C5: in purchase without --kiosk, the item is read first and its owner D second; when D
\* is object-owned by K the kiosk id is exactly K and the three later reads go to K; when
\* D is missing or not object-owned the handler fails and nothing is built or submitted.
C5_TwoHopResolution ==
    (cmd = "purchase" /\ args.kiosk = Undefined) =>
        /\ pc = "key" =>
                reads = <<Read("getObject", args.itemId),
                          Read("getObject", itemInfo.owner.ref)>>
        /\ KeyFetched =>
                /\ itemInfo.st = "data" /\ itemInfo.owner.kind = "ObjectOwner"
                /\ SubSeq(reads, 1, 2) = <<Read("getObject", args.itemId),
                                           Read("getObject", itemInfo.owner.ref)>>
        /\ KeyObjectOwned =>
                /\ kioskId = itemKey.owner.ref
                /\ Len(reads) >= 5
                /\ reads[3] = Read("getObject", itemKey.owner.ref)
                /\ reads[5] = Read("getDynamicFieldObject", itemKey.owner.ref)
        /\ (KeyFetched /\ ~KeyObjectOwned) =>
                /\ pc = "error"
                /\ err \in {"ResolutionError", "TransportError"}
                /\ Len(reads) = 2
                /\ ~txb.built
                /\ ~HasSubmitted
        /\ ~KeyFetched => kioskId = Undefined

C5_Witness ==
    /\ cmd = "purchase"
    /\ args.kiosk = Undefined
    /\ itemInfo.owner.ref = KeyId
    /\ KeyObjectOwned
    /\ kioskId = ListedKiosk
    /\ HasSubmitted

ExplicitKioskGiven ==
    /\ cmd = "purchase"
    /\ args.kiosk # Undefined
    /\ isValidSuiObjectId(args.kiosk)
    /\ purchaseArgsError(args.itemId, args) = "none"

\* C6 (as stated): with a well-formed --kiosk the id is used unchanged, no key is read,
\* and resolution succeeds whatever the owner shape of the item is.
C6_ExplicitKioskSkipsBothHops ==
    ExplicitKioskGiven =>
        /\ kioskId = args.kiosk
        /\ itemKey = NoObject
        /\ itemInfo.st = "data" => ~(pc = "error" /\ err = "NotInKiosk")

\* C6 (amended): with a well-formed --kiosk the id is used unchanged as the kiosk id and
\* the key hop is skipped (no key is read, the three later reads go to the given id, and
\* which object owns the item does not matter); the item is still fetched and a fetched
\* item that is not object-owned fails the purchase with NotInKiosk.
C6_ExplicitKioskSkipsKeyHop ==
    ExplicitKioskGiven =>
        /\ kioskId = args.kiosk
        /\ itemKey = NoObject
        /\ reads # <<>> /\ reads[1] = Read("getObject", args.itemId)
        /\ \A i \in 2..Len(reads) :
                reads[i].kind \in {"getObject", "getDynamicFieldObject"}
                    => reads[i].id = args.kiosk
        /\ (itemInfo.st = "data" /\ itemInfo.owner.kind # "ObjectOwner")
                => (pc = "error" /\ err = "NotInKiosk" /\ Len(reads) = 1)
        /\ (itemInfo.st = "data" /\ itemInfo.owner.kind = "ObjectOwner")
                => (Len(reads) >= 4 /\ reads[2] = Read("getObject", args.kiosk))

C6_Witness ==
    /\ ExplicitKioskGiven
    /\ itemInfo.st = "data"
    /\ itemInfo.owner = [kind |-> "ObjectOwner", ref |-> KeyId]
    /\ kioskId = ExplicitKiosk
    /\ HasSubmitted

\* C7: in purchase a TransactionBlock is constructed or submitted only when the listing
\* read, the kiosk read and the policy query all returned data; a missing listing or a
\* missing kiosk fails the handler.
C7_MissingListingNoTransaction ==
    cmd = "purchase" =>
        /\ (txb.built \/ HasSubmitted \/ pc \in {"cap", "send", "done"}) =>
                /\ listing.st = "data"
                /\ kiosk.st = "data"
                /\ policies.st = "data" /\ Len(policies.list) > 0
        /\ ((listing.st = "error" \/ kiosk.st = "error") /\ pc # "all") =>
                /\ pc = "error"
                /\ err \in {"NotListed", "KioskNotFound", "TransportError"}
                /\ err = "TransportError" =>
                        "reject" \in {listing.st, kiosk.st, policies.st}

C7_Witness ==
    /\ cmd = "purchase"
    /\ listing.st = "error"
    /\ kiosk.st = "data"
    /\ policies.st = "data" /\ Len(policies.list) > 0
    /\ err = "NotListed"

KioskCommands == {"place", "lock", "take", "list", "delist", "withdraw", "purchase"}
ArgsWellFormed ==
    /\ cmd \in {"place", "lock", "take", "list", "delist"} => isValidSuiObjectId(args.itemId)
    /\ cmd = "take" => isValidSuiAddress(takeReceiver(args.target))

\* C8: in place, lock, take, list, delist, withdraw and purchase, when the sender owns no
\* KioskOwnerCap nothing is submitted and the handler never completes; the capability
\* check, once the lookup has returned, fails the handler with NoKiosk (in take the two
\* argument checks that precede it fail a malformed argument with InvalidInput).
C8_NoCapNoSubmission ==
    (cmd \in KioskCommands /\ ownerCaps = <<>>) =>
        /\ ~HasSubmitted
        /\ pc \notin {"send", "done"}
        /\ kioskCap # UnsetCap =>
                /\ kioskCap = NullCap
                /\ pc = "error"
                /\ ArgsWellFormed \/ cmd # "take" => err = "NoKiosk"
                /\ err \in {"NoKiosk", "InvalidInput"}

C8_Witness ==
    /\ cmd = "purchase"
    /\ ownerCaps = <<>>
    /\ kioskCap = NullCap
    /\ err = "NoKiosk"

\* C9: in every kiosk-mutating command, when the sender owns no KioskOwnerCap, the
\* handler fails on the capability check with the capability lookup as the only ledger
\* read issued and with no TransactionBlock constructed.
C9_CapabilityCheckFirst ==
    (cmd \in KioskCommands /\ ownerCaps = <<>> /\ err = "NoKiosk") =>
        /\ reads = <<Read("getOwnedKiosks", Sender)>>
        /\ ~txb.built

HasMalformedArg == Malformed \in {args.itemId, args.kiosk, args.target}

\* C10: in place, lock, take, list, delist and purchase, an invocation with a malformed
\* item id, kiosk id or address issues no ledger read and no submission, and fails with
\* InvalidInput.
C10_MalformedBeforeLedger ==
    (cmd \in {"place", "lock", "take", "list", "delist", "purchase"} /\ HasMalformedArg) =>
        /\ reads = <<>>
        /\ ~HasSubmitted
        /\ pc = "error" => err = "InvalidInput"

----------------------------------------------------------------------------
(* Error handling of the handlers *)

ValidAmounts == {"1000"}
MalformedAmountGiven == cmd = "list" /\ args.amount \notin ValidAmounts

\* C11: `list` invoked with a malformed amount builds no bundle, submits nothing and
\* does not complete: it fails with InvalidInput.
C11_MalformedAmountRejected ==
    MalformedAmountGiven =>
        /\ ~txb.built
        /\ ~HasSubmitted
        /\ pc # "done"

\* C12: a ledger read that rejects is terminal for the invocation, in every command:
\* the invocation is in its error state from then on and nothing is submitted.
C12_ReadFailureIsTerminal ==
    rejected => pc = "error" /\ ~HasSubmitted

\* C13: when the execution result carries `errors`, the invocation ends as a failure
\* with SubmissionError; it does not complete.
C13_ErrorsEndInFailure ==
    result = "errors" => pc = "error" /\ err = "SubmissionError"

Submitting == pc \in {"send", "done", "error"}

\* C14: an invocation of a mutating command submits at most once on every path and
\* whatever the outcome of the submission; once the bundle has been handed over or the
\* handler has failed, no further submission, read or bundle operation follows in that
\* invocation.
C14_AtMostOneSubmission ==
    [][ /\ Len(submitted') <= 1
        /\ Len(submitted') >= Len(submitted) \/ pc' = "idle"
        /\ Submitting =>
              \/ pc' = "idle"
              \/ submitted' = submitted /\ reads' = reads /\ txb' = txb ]_vars

C14_Witness ==
    /\ cmd = "purchase"
    /\ Len(submitted) = 1
    /\ pc = "error"
    /\ err = "SubmissionError"

----------------------------------------------------------------------------
(* The concurrent reads of `purchase` *)

ParallelReadStates == {kiosk.st, policies.st, listing.st}
AllThreeCompleted == "unset" \notin ParallelReadStates
ParallelReadsIssued ==
    \E i \in 1..Len(reads) - 2 :
        /\ reads[i] = Read("getObject", kioskId)
        /\ reads[i + 1] = Read("queryTransferPolicy", itemInfo.type)
        /\ reads[i + 2] = Read("getDynamicFieldObject", kioskId)
JoinErrors == {"NotListed", "KioskNotFound", "NoPolicy"}

\* C15: in `purchase` the kiosk fetch, the policy query and the listing fetch are
\* issued together once the kiosk id is resolved; under every order of completion,
\* until all three have completed no result is inspected, no TransactionBlock exists,
\* no capability is looked up and nothing is submitted; if one of them rejects the
\* handler fails and nothing is submitted.
C15_ConcurrentReadsJoined ==
    cmd = "purchase" =>
        /\ (pc = "all" \/ ParallelReadStates # {"unset"}) =>
              /\ isValidSuiObjectId(kioskId)
              /\ itemInfo.st = "data"
              /\ ParallelReadsIssued
        /\ ~AllThreeCompleted =>
              /\ ~txb.built
              /\ ~HasSubmitted
              /\ kioskCap = UnsetCap
              /\ ~resolved.called
              /\ err \notin JoinErrors
              /\ pc \in {"idle", "item", "key", "all", "error"}
        /\ "reject" \in ParallelReadStates =>
              /\ pc = "error"
              /\ err = "TransportError"
              /\ ~HasSubmitted

C15_Witness ==
    /\ cmd = "purchase"
    /\ pc = "all"
    /\ listing.st = "data"
    /\ policies.st = "data"
    /\ kiosk.st = "unset"

----------------------------------------------------------------------------
(* The order of the operations of a purchase bundle *)

RuleOpName(rule) == IF rule = "royalty_rule" THEN "confirm_royalty" ELSE "lock"
PurchaseSubmitted == cmd = "purchase" /\ HasSubmitted
RoyaltyOnlyToCaller ==
    /\ PurchaseSubmitted
    /\ policies.list[1].rules = <<"royalty_rule">>
    /\ args.target = Undefined

\* C16: a submitted purchase bundle keeps emission order: the purchase-debit first, one
\* rule-satisfying operation per rule of the policy in rule order, exactly as rule
\* resolution emitted them, and the place/transfer operation, present only if
\* canTransfer, in the last position. For one royalty rule, no lock rule and no target
\* the bundle is [purchase at the listed price, confirm-royalty, transfer to the sender].
C16_EmissionOrderKept ==
    PurchaseSubmitted =>
        LET b == submitted[1]
            rules == policies.list[1].rules
            n == Len(rules)
            debit == Op("purchase", args.itemId, kioskId, "-", 0, "-", listing.price)
        IN /\ Len(b) = 1 + n + (IF resolved.canTransfer THEN 1 ELSE 0)
           /\ b[1] = debit
           /\ \A i \in 1..n : b[1 + i].op = RuleOpName(rules[i])
           /\ SubSeq(b, 1, 1 + n) = resolved.ops
           /\ \A i \in 1..Len(b) :
                 IsTransferOrPlace(b[i]) <=> (resolved.canTransfer /\ i = Len(b))
           /\ RoyaltyOnlyToCaller =>
                 b = <<debit,
                       Op("confirm_royalty", args.itemId, "-", "-", policies.list[1].id, "-",
                          listing.price),
                       transferObjects(args.itemId, Sender)>>

C16_Witness ==
    /\ RoyaltyOnlyToCaller
    /\ Len(submitted[1]) = 3
    /\ resolved.canTransfer

----------------------------------------------------------------------------
(* Preconditions of `place` and `lock` *)

OwnedByCaller ==
    /\ itemInfo.st = "data"
    /\ itemInfo.owner = [kind |-> "AddressOwner", ref |-> Sender]
ItemFetched == itemInfo.st # "unset"

\* C17: place and lock submit only when the sender holds a capability and the item
\* exists and is address-owned by the sender; place then submits once, a bundle of
\* exactly one operation, the place of the item into the kiosk of the sender's
\* capability. An item that is missing, object-owned, shared or owned by another
\* address fails the handler with no TransactionBlock and no submission.
C17_PlaceNeedsOwnItem ==
    cmd \in {"place", "lock"} =>
        /\ HasSubmitted =>
              /\ Len(ownerCaps) > 0
              /\ kioskCap = ownerCaps[1]
              /\ OwnedByCaller
              /\ Len(submitted) = 1
              /\ Len(submitted[1]) = 1
              /\ cmd = "place" =>
                    submitted[1][1] = Op("place", args.itemId, ownerCaps[1].kioskId,
                                         ownerCaps[1].objectId, 0, "-", "-")
              /\ cmd = "lock" =>
                    /\ submitted[1][1].op = "lock"
                    /\ submitted[1][1].item = args.itemId
                    /\ submitted[1][1].kiosk = ownerCaps[1].kioskId
        /\ (ItemFetched /\ ~OwnedByCaller) =>
              /\ pc = "error"
              /\ err \in {"TransportError", "NotFound", "NotOwner"}
              /\ ~txb.built
              /\ ~HasSubmitted

C17_Witness ==
    /\ cmd = "place"
    /\ HasSubmitted
    /\ OwnedByCaller
    /\ result = "table"

----------------------------------------------------------------------------
(* First result wins *)

CapInUse == kioskCap \notin {UnsetCap, NullCap}
SubmittedOps == {submitted[1][i] : i \in 1..Len(submitted[1])}

\* C18: whatever the number of KioskOwnerCaps returned, every command uses the first
\* one and its kioskId, and several caps are not an error; when the policy query
\* returns several policies, purchase and lock use the first in query order: its id is
\* the one the operations carry and, in purchase, its rules are the ones resolved.
C18_FirstResultWins ==
    /\ CapInUse => Len(ownerCaps) > 0 /\ kioskCap = ownerCaps[1]
    /\ (cmd \in KioskCommands /\ HasSubmitted) =>
          /\ CapInUse
          /\ \A o \in SubmittedOps :
                /\ o.cap # "-" => o.cap = ownerCaps[1].objectId
                /\ o.op \in {"place", "lock", "take", "list", "delist", "withdraw"} =>
                      o.kiosk = ownerCaps[1].kioskId
    /\ (cmd \in {"purchase", "lock"} /\ HasSubmitted) =>
          /\ Len(policies.list) > 0
          /\ \A o \in SubmittedOps : o.policy # 0 => o.policy = policies.list[1].id
          /\ cmd = "lock" => \E o \in SubmittedOps : o.policy = policies.list[1].id
          /\ cmd = "purchase" =>
                /\ Len(resolved.ops) = 1 + Len(policies.list[1].rules)
                /\ resolved.canTransfer <=>
                      \A i \in 1..Len(policies.list[1].rules) :
                          policies.list[1].rules[i] # "kiosk_lock_rule"

C18_Witness ==
    /\ cmd = "purchase"
    /\ HasSubmitted
    /\ Len(ownerCaps) = 2
    /\ Len(policies.list) = 2
    /\ policies.list[1].rules = <<"kiosk_lock_rule">>
    /\ policies.list[2].rules = <<>>

----------------------------------------------------------------------------
(* The capability requirement of `purchase` *)

KioskNotADestination ==
    /\ Len(policies.list) > 0
    /\ \A i \in 1..Len(policies.list[1].rules) : policies.list[1].rules[i] # "kiosk_lock_rule"
    /\ args.target # "kiosk"

\* C20: purchase needs a KioskOwnerCap in every case: without one it fails with NoKiosk,
\* resolves no rule and submits nothing, also when the first policy has no lock rule
\* and the target is an address or omitted; a purchase that submitted held a cap.
C20_PurchaseAlwaysNeedsCap ==
    cmd = "purchase" =>
        /\ kioskCap = NullCap =>
              /\ pc = "error"
              /\ err = "NoKiosk"
              /\ ~resolved.called
              /\ ~HasSubmitted
        /\ (ownerCaps = <<>> /\ KioskNotADestination) =>
              /\ ~HasSubmitted
              /\ pc \notin {"send", "done"}
        /\ HasSubmitted => kioskCap \notin {NullCap, UnsetCap}

C20_Witness ==
    /\ cmd = "purchase"
    /\ ownerCaps = <<>>
    /\ KioskNotADestination
    /\ args.target = OtherAddr
    /\ kioskCap = NullCap
    /\ err = "NoKiosk"

----------------------------------------------------------------------------
(* One kiosk per sender *)

CreateBundle == <<createKioskAndShare, transferObjects("newCap", Sender)>>

\* C21: `new` submits the create-and-share bundle only when its capability lookup
\* returned zero caps, so only for a sender that holds none; when the lookup returned a
\* cap it fails with "Kiosk already exists" and submits nothing.
C21_NewOnlyWithoutCaps ==
    cmd = "new" =>
        /\ HasSubmitted => submitted = <<CreateBundle>>
        /\ pc = "send" => ownerCaps = <<>>
        /\ CapInUse => pc = "error" /\ err = "KioskExists" /\ ~HasSubmitted

----------------------------------------------------------------------------
(* The open listings of `search` *)

SearchDone == cmd = "search" /\ pc = "done"
Shown(e) == \E i \in 1..Len(listings) : listings[i] = e
ShownOf(id) == Len(SelectSeq(listings, LAMBDA e : e.id = id))
\* an event of evs for the same item with a strictly later timestamp
LaterClosing(e, evs) ==
    \E i \in 1..Len(evs) : evs[i].id = e.id /\ evs[i].timestampMs > e.timestampMs
OpenAmong(e, d, p) == ~LaterClosing(e, d) /\ ~LaterClosing(e, p)
\* the item was delisted or purchased and then listed again, and is listed now
Relisted(id) ==
    /\ isListed(history, id)
    /\ \E i \in 1..Len(history) : history[i].id = id /\ history[i].kind # "ItemListed"
\* the events of the item carry pairwise different timestamps
DistinctTimes(id) ==
    \A i, j \in 1..Len(history) :
        (i # j /\ history[i].id = id /\ history[j].id = id) =>
            history[i].timestampMs # history[j].timestampMs
\* no query had more events to return than its limit
NothingTruncated ==
    \A k \in EventKinds : Len(eventsOf(history, k)) <= QueryLimit
IsPageOf(page, kind) ==
    /\ Len(page) <= QueryLimit
    /\ \A i \in 1..Len(page) : page[i].kind = kind
    /\ Len(eventsOf(history, kind)) <= QueryLimit => page = eventsOf(history, kind)

\* C22 (as stated): over any event history, a listing event is shown exactly when no
\* ItemDelisted and no ItemPurchased event of the same item in the history has a
\* strictly later timestamp, and an item that was delisted and listed again is shown
\* once.
C22_OpenListingsOfHistory ==
    SearchDone =>
        /\ \A i \in 1..Len(history) :
              history[i].kind = "ItemListed" =>
                  (Shown(history[i]) <=>
                      OpenAmong(history[i], eventsOf(history, "ItemDelisted"),
                                eventsOf(history, "ItemPurchased")))
        /\ \A id \in SearchItems : Relisted(id) => ShownOf(id) = 1

\* C22: search prints, in the order returned, exactly the returned ItemListed events
\* for which no returned ItemDelisted and no returned ItemPurchased event of the same
\* item has a strictly later timestamp; each query returns every event of its type
\* only while there are at most `limit` of them. When no query was truncated the same
\* holds over the history, and a re-listed item whose events have different timestamps
\* is shown once, for its last listing.
C22_OpenListingsOfReturned ==
    SearchDone =>
        /\ IsPageOf(listed, "ItemListed")
        /\ IsPageOf(delisted, "ItemDelisted")
        /\ IsPageOf(purchased, "ItemPurchased")
        /\ \A i \in 1..Len(listed) :
              Shown(listed[i]) <=> OpenAmong(listed[i], delisted, purchased)
        /\ listings = SelectSeq(listed, LAMBDA e : OpenAmong(e, delisted, purchased))
        /\ NothingTruncated =>
              /\ \A i \in 1..Len(history) :
                    history[i].kind = "ItemListed" =>
                        (Shown(history[i]) <=>
                            OpenAmong(history[i], eventsOf(history, "ItemDelisted"),
                                      eventsOf(history, "ItemPurchased")))
              /\ \A id \in SearchItems :
                    (Relisted(id) /\ DistinctTimes(id)) =>
                        /\ ShownOf(id) = 1
                        /\ \A i \in 1..Len(history) :
                              Shown(history[i]) /\ history[i].id = id =>
                                  \A j \in (i + 1)..Len(history) : history[j].id # id

C22_Witness ==
    /\ SearchDone
    /\ NothingTruncated
    /\ Relisted(ItemId)
    /\ DistinctTimes(ItemId)
    /\ Len(listed) = 2
    /\ listed[1].id = ItemId
    /\ listed[2].id = ItemId
    /\ listings = <<listed[2]>>

====
